---------------------------- MODULE Spec2Model ----------------------------
(***************************************************************************)
(* Model of the phase-timing state machine of the Pomodoro timer           *)
(* (src/pomodoro_simchn.pyw, class PomodoroApp).                           *)
(*                                                                         *)
(* Time.  time.monotonic() returns a real number of seconds.  The model    *)
(* counts the monotonic clock in quanta of 1/Res second, so that the       *)
(* rounding int(round(deadline - now)) of the code is computed on values   *)
(* with a fractional part and not only on whole seconds.                   *)
(*                                                                         *)
(* Text.  The content of an entry field or of a label is a sequence of     *)
(* one-character strings, <<"1","2">> for "12".                            *)
(***************************************************************************)
EXTENDS Integers, Sequences, FiniteSets, TLC

\* ------------------------------------------------------------------ bounds
\* Quanta of the monotonic clock per second (2: the clock moves by half seconds).
Res == 2
\* Fine-grained runs: the clock stops advancing Window quanta after this many minutes.
MaxFineMinutes == 2
\* Fine-grained runs: events happen within Window quanta of a whole minute of the clock.
Window == 3
\* Fine-grained runs: largest advance of the clock, in quanta, inside a window.
MaxStep == 2
\* The monotonic clock stops advancing at this many minutes (whole-minute runs).
MaxMinutes == 12
\* The monotonic clock stops advancing at this many minutes (settings runs).
MaxSettingsMinutes == 2
\* Stopwatch runs: the clock stops advancing Window quanta after this many minutes.
MaxWatchedMinutes == 1
\* The monotonic clock stops advancing at this many minutes (sound runs).
MaxSoundMinutes == 3
\* The monotonic clock stops advancing at this many minutes (presentation runs).
MaxUIMinutes == 1
\* A drag moves the window to one of the positions 0..MaxPos.
MaxPos == 1
\* The observer counts <Escape> key events up to this many.
MaxEsc == 1
\* Formatting runs: the seconds formatted are -MaxFmtBelow..MaxFmtSeconds (past
\* 100 minutes) and the counts -MaxFmtBelow..MaxFmtCount (past two digits).
MaxFmtBelow == 2
MaxFmtSeconds == 6061
MaxFmtCount == 101
\* Fair runs: Pause is pressed, and the clock runs on while paused or past a
\* deadline, only before this many minutes of the clock.
MaxPauseMinutes == 3
\* Fair runs: the clock stops advancing this many minutes after the last pause
\* (the longest run of the settings picked takes 23).
MaxLiveRunMinutes == 23

\* --------------------------------------------------------------- constants
\* Seconds in a minute: dur = minutes*60.
SecPerMin == 60
\* Upper end of the accepted session range: 1 <= s <= 20.
MaxSessions == 20
\* A long break follows every 5th completed session: done_pomodoros % 5 == 0.
LongEvery == 5

VARIABLES
    now,                  \* time.monotonic(), in quanta
    var_sessions,         \* text of the SESSIONS entry
    var_pomo_min,         \* text of the POMODORO entry
    var_short_min,        \* text of the SHORT BREAK entry
    var_long_min,         \* text of the LONG BREAK entry
    total_sessions,
    done_pomodoros,
    mode,                 \* "idle", "study", "break"
    paused,
    paused_left,          \* seconds
    status_before_pause,  \* _status_before_pause
    pomo_min,
    short_min,
    long_min,
    phase_end_monot,      \* quanta
    lbl_status,           \* text of the status line
    lbl_bottom,           \* text of the progress/countdown line
    btn_start,            \* label of the Start/Pause/Resume button
    errorbox,             \* title of the messagebox.showerror dialog the last step
                          \* showed (it is modal: dismissed before the handler
                          \* returns), "" when it showed none
    alerts,               \* calls of play_sound_async since the run began (an
                          \* observer's counter: Start and Reset zero it)
    stopwatch,            \* an observer's stopwatch, in quanta: the time the clock
                          \* advanced under its watch while the current phase was
                          \* running un-paused (zeroed whenever a phase is entered
                          \* or the timer goes Idle)
    long_breaks,          \* an observer's counter: the breaks of the run entered
                          \* with the long-break duration (Start and Reset zero it)
    float_on,             \* BooleanVar of the Floating checkbox
    setting_open,         \* BooleanVar: the Settings panel is meant to be open
    settings_packed,      \* self.settings.winfo_manager() == "pack"
    floating_window,      \* the window is topmost, undecorated and see-through
    drag_bound,           \* the drag handlers are bound to the display lines
    show_time,            \* BooleanVar of the Date checkbox
    now_packed,           \* self.lbl_now.winfo_manager() == "pack"
    current_fg,           \* colour of the three lines
    current_size,         \* "Large", "Mid", "Small"
    bold_on,
    italic_on,
    underline_on,
    win_pos,              \* position of the window on the screen
    esc_presses,          \* <Escape> key events delivered to the window (an
                          \* observer's counter)
    hb_pending,           \* heartbeat callbacks scheduled with after() and not yet run
    destroyed,            \* the window has been destroyed
    audio_path,           \* the sound file found at construction, "" when none
    workers,              \* worker threads of play_sound_async that have not finished
    last_sound,           \* how the last finished worker ended: "played", "failed",
                          \* "none" before any has finished
    fmt_arg,              \* formatting runs: the function applied and its arguments
                          \* (<<>> in the other runs)
    fmt_out               \* formatting runs: the text returned, <<>> before the call

entries == <<var_sessions, var_pomo_min, var_short_min, var_long_min>>
config == <<total_sessions, pomo_min, short_min, long_min>>
run == <<mode, paused, done_pomodoros, phase_end_monot, paused_left, status_before_pause>>
widgets == <<lbl_status, lbl_bottom, btn_start, errorbox>>
ui == <<float_on, setting_open, settings_packed, floating_window, drag_bound, show_time,
        now_packed, current_fg, current_size, bold_on, italic_on, underline_on, win_pos, esc_presses>>
sched == <<hb_pending, destroyed>>
sound == <<audio_path, workers, last_sound>>
fmt == <<fmt_arg, fmt_out>>
vars == <<now, entries, config, run, widgets, alerts, stopwatch, long_breaks, ui, sched, sound,
          fmt>>

\* ------------------------------------------------------------------- text
DigitChars == <<"0", "1", "2", "3", "4", "5", "6", "7", "8", "9">>

IsDigit(c) == \E i \in 1..10 : DigitChars[i] = c

DigitVal(c) == (CHOOSE i \in 1..10 : DigitChars[i] = c) - 1

\* The number written in decimal digits at positions i..j of t.
RECURSIVE NumberAt(_, _, _)
NumberAt(t, i, j) ==
    IF j < i THEN 0 ELSE 10 * NumberAt(t, i, j - 1) + DigitVal(t[j])

\* str.strip(): the text between the first and the last character that is no
\* blank (FirstInk > LastInk when there is none).
FirstInk(t) ==
    IF \E i \in 1..Len(t) : t[i] # " "
    THEN CHOOSE i \in 1..Len(t) : t[i] # " " /\ \A j \in 1..(i - 1) : t[j] = " "
    ELSE Len(t) + 1

LastInk(t) ==
    IF \E i \in 1..Len(t) : t[i] # " "
    THEN CHOOSE i \in 1..Len(t) : t[i] # " " /\ \A j \in (i + 1)..Len(t) : t[j] = " "
    ELSE 0

\* Where the digits of a stripped integer literal start: after its sign, if any.
FirstDigit(t) ==
    IF FirstInk(t) <= Len(t) /\ t[FirstInk(t)] \in {"+", "-"}
    THEN FirstInk(t) + 1
    ELSE FirstInk(t)

\* int(text.strip()) succeeds: an optional sign and one or more decimal digits.
IsIntText(t) ==
    /\ FirstDigit(t) <= LastInk(t)
    /\ \A i \in FirstDigit(t)..LastInk(t) : IsDigit(t[i])

\* int(text.strip()) for a text that IsIntText accepts.
IntOf(t) ==
    IF t[FirstInk(t)] = "-"
    THEN 0 - NumberAt(t, FirstDigit(t), LastInk(t))
    ELSE NumberAt(t, FirstDigit(t), LastInk(t))

\* str(n) for n >= 0.
RECURSIVE DecimalOf(_)
DecimalOf(n) ==
    IF n < 10 THEN <<DigitChars[n + 1]>>
    ELSE DecimalOf(n \div 10) \o <<DigitChars[(n % 10) + 1]>>

\* f"{n:02d}": the decimal digits, padded with zeros on the left to width 2
\* (a negative number carries its sign in the width).
Fmt02d_unpadded(n) ==
    IF n < 0 THEN <<"-">> \o DecimalOf(0 - n)
    ELSE DecimalOf(n)

Fmt02d(n) ==
    IF n < 0 THEN <<"-">> \o DecimalOf(0 - n)
    ELSE
        LET d == DecimalOf(n)
        IN  (IF Len(d) < 2 THEN <<"0">> ELSE <<>>) \o d

fmt_mm_ss(sec) ==
    LET s0 == IF sec < 0 THEN 0 ELSE sec
    IN  Fmt02d(s0 \div SecPerMin) \o <<":">> \o Fmt02d(s0 % SecPerMin)

fmt_progress(n, d) ==
    LET n0 == IF n > 0 THEN n ELSE 0
        d0 == IF d > 0 THEN d ELSE 0
    IN  Fmt02d(n0) \o <<"/">> \o Fmt02d(d0)

Gap == <<" ", " ", " ", " ">>


\* The text of line 2: progress, four blanks, countdown.
BottomText(progress, mmss) == progress \o Gap \o mmss

\* -------------------------------------------------------- reading line 2
\* Position of the first c in t (Len(t)+1 when there is none).
IndexOf(t, c) ==
    IF \E i \in 1..Len(t) : t[i] = c
    THEN CHOOSE i \in 1..Len(t) : t[i] = c /\ \A j \in 1..(i - 1) : t[j] # c
    ELSE Len(t) + 1

\* What line 2 shows: the number before "/", the number between "/" and the
\* first blank, and the countdown after the blanks.
ShownNumerator == NumberAt(lbl_bottom, 1, IndexOf(lbl_bottom, "/") - 1)

ShownDenominator ==
    NumberAt(lbl_bottom, IndexOf(lbl_bottom, "/") + 1, IndexOf(lbl_bottom, " ") - 1)

ShownCountdown ==
    SubSeq(lbl_bottom, IndexOf(lbl_bottom, " ") + Len(Gap), Len(lbl_bottom))

\* The countdown of line 2 in seconds: minutes*60 + seconds.
ShownSeconds ==
    NumberAt(lbl_bottom, IndexOf(lbl_bottom, " ") + Len(Gap), IndexOf(lbl_bottom, ":") - 1)
        * SecPerMin
    + NumberAt(lbl_bottom, IndexOf(lbl_bottom, ":") + 1, Len(lbl_bottom))

\* ------------------------------------------------------------------ clock
\* Python's round() of x/Res seconds: to the nearest integer, ties to even.
RoundQuanta(x) ==
    LET q == x \div Res
        r == x % Res
    IN  IF 2 * r < Res THEN q
        ELSE IF 2 * r > Res THEN q + 1
        ELSE IF q % 2 = 0 THEN q ELSE q + 1

\* int(round(self.phase_end_monot - time.monotonic()))
LeftNow_truncated == (phase_end_monot - now) \div Res

LeftNow == RoundQuanta(phase_end_monot - now)

\* time.monotonic() + dur, dur in seconds
Deadline_from_previous(dur) == phase_end_monot + dur * Res

Deadline(dur) == now + dur * Res

\* minutes*60
Seconds(minutes) == minutes * SecPerMin

\* ------------------------------------------------------------ _read_settings
\* The outcome of _read_settings: the four integers, or the title of the error
\* dialog it shows before returning None.
\* 1 <= s <= 20
SessionsInRange_off(s) == 1 <= s /\ s < MaxSessions

SessionsInRange(s) == 1 <= s /\ s <= MaxSessions

\* not (p<=0 or sb<=0 or lb<=0)
MinutesPositive_zero(p, sb, lb) == ~(p < 0 \/ sb < 0 \/ lb < 0)

MinutesPositive(p, sb, lb) == ~(p <= 0 \/ sb <= 0 \/ lb <= 0)

read_settings ==
    IF ~(IsIntText(var_sessions) /\ IsIntText(var_pomo_min)
         /\ IsIntText(var_short_min) /\ IsIntText(var_long_min))
    THEN [ok |-> FALSE, err |-> "Invalid input", vals |-> <<>>]
    ELSE LET s  == IntOf(var_sessions)
             p  == IntOf(var_pomo_min)
             sb == IntOf(var_short_min)
             lb == IntOf(var_long_min)
         IN  IF ~SessionsInRange(s)
             THEN [ok |-> FALSE, err |-> "Invalid Sessions", vals |-> <<>>]
             ELSE IF ~MinutesPositive(p, sb, lb)
             THEN [ok |-> FALSE, err |-> "Invalid minutes", vals |-> <<>>]
             ELSE [ok |-> TRUE, err |-> "", vals |-> <<s, p, sb, lb>>]

\* ------------------------------------------------------------ rendering
render_bottom_dynamic(numerator, total_seconds, total) ==
    BottomText(fmt_progress(numerator, total), fmt_mm_ss(total_seconds))

update_bottom_with_left_plus_one(left_seconds) ==
    BottomText(fmt_progress(done_pomodoros + 1, total_sessions), fmt_mm_ss(left_seconds))

update_bottom_with_left(left_seconds) ==
    BottomText(fmt_progress(done_pomodoros + (IF mode = "study" THEN 1 ELSE 0),
                            total_sessions),
               fmt_mm_ss(left_seconds))

render_bottom_static(mmss, done, total) == BottomText(fmt_progress(done, total), mmss)

\* ------------------------------------------------------------------ Init
\* The state __init__ leaves, but for the sound file it has found.
Construct ==
    /\ now = 0
    /\ var_sessions = <<"1", "2">>
    /\ var_pomo_min = <<"2", "5">>
    /\ var_short_min = <<"5">>
    /\ var_long_min = <<"1", "5">>
    /\ total_sessions = 0
    /\ done_pomodoros = 0
    /\ mode = "idle"
    /\ paused = FALSE
    /\ paused_left = 0
    /\ status_before_pause = "READY"
    /\ pomo_min = 25
    /\ short_min = 5
    /\ long_min = 15
    /\ phase_end_monot = 0
    /\ lbl_status = "READY"
    /\ lbl_bottom = BottomText(fmt_progress(0, 0), <<"0", "0", ":", "0", "0">>)
    /\ btn_start = "Start"
    /\ errorbox = ""
    /\ alerts = 0
    /\ stopwatch = 0
    /\ long_breaks = 0
    /\ float_on = FALSE
    /\ setting_open = TRUE
    /\ settings_packed = TRUE
    /\ floating_window = FALSE
    /\ drag_bound = FALSE
    /\ show_time = TRUE
    /\ now_packed = TRUE
    /\ current_fg = "#000000"
    /\ current_size = "Large"
    /\ bold_on = TRUE
    /\ italic_on = FALSE
    /\ underline_on = FALSE
    /\ win_pos = 0
    /\ esc_presses = 0
    /\ hb_pending = 1
    /\ destroyed = FALSE
    /\ workers = 0
    /\ last_sound = "none"
    /\ fmt_out = <<>>

\* Construction in a folder without a sound file (the file is optional).
Init ==
    /\ Construct
    /\ audio_path = ""
    /\ fmt_arg = <<>>

\* ------------------------------------------------------------ phase entry
\* _enter_study, run after the handler has set done_pomodoros and the
\* configuration (it reads their new values).
enter_study ==
    /\ mode' = "study"
    /\ lbl_status' = "STUDY"
    /\ status_before_pause' = "STUDY"
    /\ phase_end_monot' = Deadline(Seconds(pomo_min'))
    /\ paused' = FALSE
    /\ lbl_bottom' = render_bottom_dynamic(done_pomodoros' + 1, Seconds(pomo_min'),
                                           total_sessions')

\* The minutes of the break that follows the done-th session.
BreakMinutes_shifted(done) == IF (done + 1) % LongEvery = 0 THEN long_min ELSE short_min

BreakMinutes(done) == IF done % LongEvery = 0 THEN long_min ELSE short_min

\* _enter_break, run after _advance_phase has incremented done_pomodoros.
enter_break ==
    /\ mode' = "break"
    /\ lbl_status' = "BREAK"
    /\ status_before_pause' = "BREAK"
    /\ phase_end_monot' = Deadline(Seconds(BreakMinutes(done_pomodoros')))
    /\ paused' = FALSE
    /\ lbl_bottom' = render_bottom_dynamic(done_pomodoros', Seconds(BreakMinutes(done_pomodoros')),
                                           total_sessions')

\* The run is complete: done_pomodoros >= total_sessions.
RunComplete_late(done) == done > total_sessions

RunComplete_early(done) == done + 1 >= total_sessions

RunComplete(done) == done >= total_sessions

advance_phase ==
    /\ errorbox' = ""
    /\ UNCHANGED <<config, paused_left>>
    /\ IF mode = "study"
       THEN /\ done_pomodoros' = done_pomodoros + 1
            /\ IF RunComplete(done_pomodoros')
               THEN /\ mode' = "idle"
                    /\ lbl_status' = "READY"
                    /\ status_before_pause' = "READY"
                    /\ lbl_bottom' = render_bottom_static(<<"0", "0", ":", "0", "0">>,
                                                          done_pomodoros', total_sessions)
                    /\ btn_start' = "Start"
                    /\ UNCHANGED <<paused, phase_end_monot>>
               ELSE /\ enter_break
                    /\ UNCHANGED btn_start
       ELSE IF mode = "break"
       THEN /\ UNCHANGED <<done_pomodoros, btn_start>>
            /\ enter_study
       ELSE UNCHANGED <<run, lbl_status, lbl_bottom, btn_start>>


\* ---------------------------------------------------------------- _heartbeat
\* play_sound_async(self.audio_path), as _heartbeat calls it: one more alert.
play_sound_async_unless_complete ==
    /\ alerts' = (IF mode = "study" /\ done_pomodoros + 1 >= total_sessions
                  THEN alerts ELSE alerts + 1)
    /\ workers' = (IF audio_path = "" THEN workers ELSE workers + 1)

\* The same without the early return: if not path: return
play_sound_async_without_path ==
    /\ alerts' = alerts + 1
    /\ workers' = workers + 1

\* Without a sound file it returns at once; with one it starts a daemon thread.
play_sound_async ==
    /\ alerts' = alerts + 1
    /\ workers' = (IF audio_path = "" THEN workers ELSE workers + 1)

\* What the observer of long breaks sees of a step: a Break has been entered
\* from Study with its deadline long_min*60 seconds away.
count_long_break ==
    long_breaks' = long_breaks +
        (IF mode = "study" /\ mode' = "break"
            /\ phase_end_monot' - now = Seconds(long_min) * Res
         THEN 1 ELSE 0)

\* self._hb_id = self.after(self.heartbeat_ms, self._heartbeat), in the callback
\* that has just been taken off the pending ones.
after_heartbeat_when_running ==
    hb_pending' = (hb_pending - 1) + (IF mode \in {"study", "break"} THEN 1 ELSE 0)

after_heartbeat == hb_pending' = (hb_pending - 1) + 1

\* One run of the periodic callback (the wall-clock line is not modelled).
Heartbeat_ignores_pause ==
    /\ hb_pending >= 1
    /\ after_heartbeat
    /\ UNCHANGED <<now, entries, ui, destroyed, audio_path, last_sound, fmt>>
    /\ stopwatch' = (IF mode \in {"study", "break"} /\ LeftNow <= 0 THEN 0 ELSE stopwatch)
    /\ IF mode \in {"study", "break"}
       THEN IF LeftNow <= 0
            THEN /\ play_sound_async
                 /\ advance_phase
            ELSE /\ lbl_bottom' = update_bottom_with_left(LeftNow)
                 /\ errorbox' = ""
                 /\ UNCHANGED <<config, run, lbl_status, btn_start, alerts, workers>>
       ELSE /\ errorbox' = ""
            /\ UNCHANGED <<config, run, lbl_status, lbl_bottom, btn_start, alerts, workers>>
    /\ count_long_break

Heartbeat ==
    /\ hb_pending >= 1
    /\ after_heartbeat
    /\ UNCHANGED <<now, entries, ui, destroyed, audio_path, last_sound, fmt>>
    /\ stopwatch' = (IF mode \in {"study", "break"} /\ ~paused /\ LeftNow <= 0
                     THEN 0 ELSE stopwatch)
    /\ IF mode \in {"study", "break"}
       THEN IF paused
            THEN /\ lbl_bottom' = update_bottom_with_left(paused_left)
                 /\ errorbox' = ""
                 /\ UNCHANGED <<config, run, lbl_status, btn_start, alerts, workers>>
            ELSE IF LeftNow <= 0
                 THEN /\ play_sound_async
                      /\ advance_phase
                 ELSE /\ lbl_bottom' = update_bottom_with_left(LeftNow)
                      /\ errorbox' = ""
                      /\ UNCHANGED <<config, run, lbl_status, btn_start, alerts, workers>>
       ELSE /\ errorbox' = ""
            /\ UNCHANGED <<config, run, lbl_status, lbl_bottom, btn_start, alerts, workers>>
    /\ count_long_break

\* ------------------------------------------------------ Start / Pause / Resume
\* max(0, int(round(self.phase_end_monot - time.monotonic())))
FrozenLeft_unclamped == LeftNow

FrozenLeft == IF LeftNow > 0 THEN LeftNow ELSE 0

\* The deadline Resume sets: time.monotonic() + self.paused_left
ResumeDeadline_kept == phase_end_monot

ResumeDeadline == Deadline(paused_left)

\* The branch of the button handler taken in Idle.
start ==
    LET r == read_settings
    IN  IF ~r.ok
        THEN /\ errorbox' = r.err
             /\ UNCHANGED <<config, run, lbl_status, lbl_bottom, btn_start>>
        ELSE /\ total_sessions' = r.vals[1]
             /\ pomo_min' = r.vals[2]
             /\ short_min' = r.vals[3]
             /\ long_min' = r.vals[4]
             /\ done_pomodoros' = 0
             /\ enter_study
             /\ btn_start' = "Pause"
             /\ errorbox' = ""
             /\ UNCHANGED paused_left

\* The label Pause records for Resume: "STUDY" if self.mode=="study" else "BREAK"
StatusBeforePause_study == "STUDY"

StatusBeforePause == IF mode = "study" THEN "STUDY" ELSE "BREAK"

\* The branch taken when not paused.
pause ==
    IF mode \in {"study", "break"}
    THEN /\ paused_left' = FrozenLeft
         /\ paused' = TRUE
         /\ status_before_pause' = StatusBeforePause
         /\ lbl_status' = "PAUSE"
         /\ btn_start' = "Resume"
         /\ errorbox' = ""
         /\ UNCHANGED <<config, mode, done_pomodoros, phase_end_monot, lbl_bottom>>
    ELSE /\ errorbox' = ""
         /\ UNCHANGED <<config, run, lbl_status, lbl_bottom, btn_start>>

\* The branch taken when paused.
resume_keeps_label ==
    IF mode \in {"study", "break"}
    THEN /\ phase_end_monot' = ResumeDeadline
         /\ paused' = FALSE
         /\ lbl_status' = status_before_pause
         /\ errorbox' = ""
         /\ UNCHANGED <<config, mode, done_pomodoros, paused_left, status_before_pause,
                        lbl_bottom, btn_start>>
    ELSE /\ errorbox' = ""
         /\ UNCHANGED <<config, run, lbl_status, lbl_bottom, btn_start>>

resume ==
    IF mode \in {"study", "break"}
    THEN /\ phase_end_monot' = ResumeDeadline
         /\ paused' = FALSE
         /\ lbl_status' = status_before_pause
         /\ btn_start' = "Pause"
         /\ errorbox' = ""
         /\ UNCHANGED <<config, mode, done_pomodoros, paused_left, status_before_pause,
                        lbl_bottom>>
    ELSE /\ errorbox' = ""
         /\ UNCHANGED <<config, run, lbl_status, lbl_bottom, btn_start>>

on_start_pause_resume_by_mode ==
    /\ UNCHANGED <<now, entries, ui, sched, sound, fmt>>
    /\ alerts' = (IF mode = "idle" /\ read_settings.ok THEN 0 ELSE alerts)
    /\ long_breaks' = (IF mode = "idle" /\ read_settings.ok THEN 0 ELSE long_breaks)
    /\ stopwatch' = (IF mode = "idle" THEN 0 ELSE stopwatch)
    /\ IF mode = "idle" THEN start ELSE pause

on_start_pause_resume ==
    /\ UNCHANGED <<now, entries, ui, sched, sound, fmt>>
    /\ alerts' = (IF mode = "idle" /\ read_settings.ok THEN 0 ELSE alerts)
    /\ long_breaks' = (IF mode = "idle" /\ read_settings.ok THEN 0 ELSE long_breaks)
    /\ stopwatch' = (IF mode = "idle" THEN 0 ELSE stopwatch)
    /\ IF mode = "idle" THEN start
       ELSE IF ~paused THEN pause
       ELSE resume

\* -------------------------------------------------------------------- Reset
\* Reset reads the settings when no configuration is stored yet.
ResetReads_always == TRUE

ResetReads_never == FALSE

ResetReads == total_sessions <= 0

\* The assignments of Reset to the run state and the widgets (the last five
\* lines of on_reset), run after the configuration has been settled.
reset_run_keeps_pause ==
    /\ mode' = "idle"
    /\ UNCHANGED paused
    /\ done_pomodoros' = 0
    /\ lbl_status' = "READY"
    /\ status_before_pause' = "READY"
    /\ lbl_bottom' = render_bottom_static(<<"0", "0", ":", "0", "0">>, done_pomodoros',
                                          total_sessions')
    /\ btn_start' = "Start"

reset_run ==
    /\ mode' = "idle"
    /\ paused' = FALSE
    /\ done_pomodoros' = 0
    /\ lbl_status' = "READY"
    /\ status_before_pause' = "READY"
    /\ lbl_bottom' = render_bottom_static(<<"0", "0", ":", "0", "0">>, done_pomodoros',
                                          total_sessions')
    /\ btn_start' = "Start"

on_reset ==
    /\ UNCHANGED <<now, entries, paused_left, phase_end_monot, ui, sched, sound, fmt>>
    /\ alerts' = 0
    /\ stopwatch' = 0
    /\ long_breaks' = 0
    /\ IF ResetReads
       THEN LET r == read_settings
            IN  IF r.ok
                THEN /\ total_sessions' = r.vals[1]
                     /\ pomo_min' = r.vals[2]
                     /\ short_min' = r.vals[3]
                     /\ long_min' = r.vals[4]
                     /\ errorbox' = ""
                ELSE /\ errorbox' = r.err
                     /\ UNCHANGED config
       ELSE /\ errorbox' = ""
            /\ UNCHANGED config
    /\ reset_run

\* ------------------------------------------------------------- presentation
\* The frame of a presentation handler: it runs while the window exists and
\* touches neither the clock, the entries, the timer, the heartbeat nor the sound.
PresentationOnly_unpausing ==
    /\ ~destroyed
    /\ errorbox' = ""
    /\ paused' = FALSE
    /\ UNCHANGED <<now, entries, config, mode, done_pomodoros, phase_end_monot, paused_left,
                    status_before_pause, lbl_status, lbl_bottom, btn_start, alerts,
                    long_breaks,
                    stopwatch, sched, sound, fmt>>

PresentationOnly ==
    /\ ~destroyed
    /\ errorbox' = ""
    /\ UNCHANGED <<now, entries, config, run, lbl_status, lbl_bottom, btn_start, alerts,
                    long_breaks,
                    stopwatch, sched, sound, fmt>>

toggle_settings ==
    IF setting_open
    THEN /\ settings_packed' = FALSE
         /\ setting_open' = FALSE
    ELSE /\ settings_packed' = TRUE
         /\ setting_open' = TRUE

\* apply_floating, run after float_on has been set (it reads the new value); it
\* finds the Settings panel as open0, packed0.
apply_floating_keeps_flag(open0, packed0) ==
    IF float_on'
    THEN /\ settings_packed' = FALSE
         /\ setting_open' = open0
         /\ floating_window' = TRUE
         /\ drag_bound' = TRUE
    ELSE /\ settings_packed' = packed0
         /\ setting_open' = open0
         /\ floating_window' = FALSE
         /\ drag_bound' = FALSE

apply_floating(open0, packed0) ==
    IF float_on'
    THEN /\ settings_packed' = FALSE
         /\ setting_open' = FALSE
         /\ floating_window' = TRUE
         /\ drag_bound' = TRUE
    ELSE /\ settings_packed' = packed0
         /\ setting_open' = open0
         /\ floating_window' = FALSE
         /\ drag_bound' = FALSE

toggle_floating_evt ==
    /\ float_on' = ~float_on
    /\ apply_floating(setting_open, settings_packed)

\* The keys __init__ binds, and the handler of a key press.
FloatingKeys == {"f", "F"}

SettingsKeys == {"s", "S"}

KeyPress(key) ==
    /\ PresentationOnly
    /\ IF key = "Escape"
       THEN esc_presses < MaxEsc /\ esc_presses' = esc_presses + 1
       ELSE UNCHANGED esc_presses
    /\ UNCHANGED <<show_time, now_packed, current_fg, current_size, bold_on, italic_on,
                    underline_on, win_pos>>
    /\ IF key \in FloatingKeys THEN toggle_floating_evt
       ELSE IF key \in SettingsKeys
       THEN toggle_settings /\ UNCHANGED <<float_on, floating_window, drag_bound>>
       ELSE UNCHANGED <<float_on, setting_open, settings_packed, floating_window, drag_bound>>

\* <Button-1> on the status line.
on_status_click ==
    /\ PresentationOnly
    /\ UNCHANGED esc_presses
    /\ UNCHANGED <<show_time, now_packed, current_fg, current_size, bold_on, italic_on,
                    underline_on, win_pos>>
    /\ toggle_settings
    /\ UNCHANGED <<float_on, floating_window, drag_bound>>

\* A double click on the status line: the first click is a <Button-1>, which
\* toggles Settings; the second is the <Double-Button-1>, which toggles Floating
\* on what the first click has left.
on_status_double_click ==
    /\ PresentationOnly
    /\ UNCHANGED esc_presses
    /\ UNCHANGED <<show_time, now_packed, current_fg, current_size, bold_on, italic_on,
                    underline_on, win_pos>>
    /\ float_on' = ~float_on
    /\ apply_floating(~setting_open, ~setting_open)

\* A click on the Floating checkbox of the Settings panel: the checkbox flips its
\* variable and runs its command, apply_floating.
floating_checkbox ==
    /\ settings_packed
    /\ PresentationOnly
    /\ UNCHANGED esc_presses
    /\ UNCHANGED <<show_time, now_packed, current_fg, current_size, bold_on, italic_on,
                    underline_on, win_pos>>
    /\ float_on' = ~float_on
    /\ apply_floating(setting_open, settings_packed)

\* The colours of the COLOR box.
ColorNames == {"Black", "Red", "Yellow", "Blue", "Green"}

ColorOf(name) ==
    CASE name = "Black" -> "#000000"
      [] name = "Red" -> "#FF0000"
      [] name = "Yellow" -> "#FFD400"
      [] name = "Blue" -> "#2060FF"
      [] name = "Green" -> "#19A95A"
      [] OTHER -> "#000000"

on_color_change(name) ==
    /\ settings_packed
    /\ PresentationOnly
    /\ UNCHANGED esc_presses
    /\ current_fg' = ColorOf(name)
    /\ UNCHANGED <<float_on, setting_open, settings_packed, floating_window, drag_bound,
                    show_time, now_packed, current_size, bold_on, italic_on, underline_on,
                    win_pos>>

SizeNames == {"Large", "Mid", "Small"}

on_size_change(size) ==
    /\ settings_packed
    /\ PresentationOnly
    /\ UNCHANGED esc_presses
    /\ current_size' = size
    /\ UNCHANGED <<float_on, setting_open, settings_packed, floating_window, drag_bound,
                    show_time, now_packed, current_fg, bold_on, italic_on, underline_on,
                    win_pos>>

\* A click on B, I or U: the button flips its variable and runs apply_text_style.
apply_text_style(style) ==
    /\ settings_packed
    /\ PresentationOnly
    /\ UNCHANGED esc_presses
    /\ bold_on' = (IF style = "B" THEN ~bold_on ELSE bold_on)
    /\ italic_on' = (IF style = "I" THEN ~italic_on ELSE italic_on)
    /\ underline_on' = (IF style = "U" THEN ~underline_on ELSE underline_on)
    /\ UNCHANGED <<float_on, setting_open, settings_packed, floating_window, drag_bound,
                    show_time, now_packed, current_fg, current_size, win_pos>>

\* A click on the Date checkbox: it flips show_time and runs apply_show_time.
apply_show_time ==
    /\ settings_packed
    /\ PresentationOnly
    /\ UNCHANGED esc_presses
    /\ show_time' = ~show_time
    /\ now_packed' = show_time'
    /\ UNCHANGED <<float_on, setting_open, settings_packed, floating_window, drag_bound,
                    current_fg, current_size, bold_on, italic_on, underline_on, win_pos>>

\* _drag_start and _drag_move: bound in floating mode only.
drag(pos) ==
    /\ drag_bound
    /\ PresentationOnly
    /\ UNCHANGED esc_presses
    /\ win_pos' = pos
    /\ UNCHANGED <<float_on, setting_open, settings_packed, floating_window, drag_bound,
                    show_time, now_packed, current_fg, current_size, bold_on, italic_on,
                    underline_on>>

\* destroy: the pending heartbeat is cancelled and the window is gone.
destroy ==
    /\ ~destroyed
    /\ destroyed' = TRUE
    /\ hb_pending' = (IF hb_pending >= 1 THEN hb_pending - 1 ELSE hb_pending)
    /\ errorbox' = ""
    /\ UNCHANGED <<now, entries, config, run, lbl_status, lbl_bottom, btn_start, alerts,
                    long_breaks,
                    stopwatch, ui, sound, fmt>>

\* -------------------------------------------------------------- environment
\* The monotonic clock advances by d quanta, up to the instant `until`.
AdvanceTime(d, until) ==
    /\ now + d <= until
    /\ now' = now + d
    /\ errorbox' = ""
    /\ UNCHANGED <<entries, config, run, lbl_status, lbl_bottom, btn_start, alerts,
                    long_breaks,
                    stopwatch, ui, sched, sound, fmt>>

\* The monotonic clock advances by d quanta under the observer's stopwatch, which
\* runs while a phase is running un-paused.
AdvanceWatched(d, until) ==
    /\ now + d <= until
    /\ now' = now + d
    /\ stopwatch' = (IF mode \in {"study", "break"} /\ ~paused THEN stopwatch + d
                     ELSE stopwatch)
    /\ errorbox' = ""
    /\ UNCHANGED <<entries, config, run, lbl_status, lbl_bottom, btn_start, alerts,
                    long_breaks,
                    ui, sched, sound, fmt>>

\* The user replaces the texts of the four entry fields.
EditSettings(e) ==
    /\ entries # e
    /\ var_sessions' = e[1]
    /\ var_pomo_min' = e[2]
    /\ var_short_min' = e[3]
    /\ var_long_min' = e[4]
    /\ errorbox' = ""
    /\ UNCHANGED <<now, config, run, lbl_status, lbl_bottom, btn_start, alerts,
                    long_breaks, stopwatch,
                    ui, sched, sound, fmt>>

\* The body of a worker thread of play_sound_async runs to its end: the sound
\* has been played, or playing it has raised and the exception was swallowed
\* (except: pass).  It runs whenever the scheduler lets it, between any two
\* handlers of the main thread.
worker ==
    /\ workers >= 1
    /\ workers' = workers - 1
    /\ \E how \in {"played", "failed"} : last_sound' = how
    /\ errorbox' = ""
    /\ UNCHANGED <<now, entries, config, run, lbl_status, lbl_bottom, btn_start, alerts,
                    long_breaks,
                    stopwatch, ui, sched, audio_path, fmt>>

\* What find_audio_file may return: no file, or the first sound file of the folder.
AudioFiles == {"", "alert.wav"}

\* The texts the entries hold after construction.
DefaultEntries == <<<<"1", "2">>, <<"2", "5">>, <<"5">>, <<"1", "5">>>>

\* Entry texts of the fine-grained runs.
FineEntries ==
    { DefaultEntries,
      <<<<"2">>, <<"1">>, <<"1">>, <<"2">>>> }

\* Quanta in a minute.
MinuteQuanta == SecPerMin * Res

\* The instants of the fine-grained runs: within Window quanta of a whole minute
\* of the clock.  Deadlines fall one or more whole minutes after the instant a
\* phase is entered, so every rounding case around a deadline lies in a window.
InWindow(t) == t % MinuteQuanta <= Window \/ t % MinuteQuanta >= MinuteQuanta - Window

\* The advances of the clock in a fine-grained run: a few quanta, the gap
\* between two windows, or a whole minute.
FineSteps == (1..MaxStep) \cup {MinuteQuanta - 2 * Window, MinuteQuanta}

\* Entry texts of the whole-minute runs.
MinuteEntries ==
    { DefaultEntries,
      <<<<"1">>, <<"1">>, <<"1">>, <<"2">>>>,
      <<<<"3">>, <<"1">>, <<"2">>, <<"1">>>>,
      <<<<" ", "6", " ">>, <<"1">>, <<"1">>, <<"2">>>>,
      <<<<"2", "0">>, <<"+", "1">>, <<"1">>, <<"2">>>>,
      <<<<"2", "1">>, <<"1">>, <<"1">>, <<"2">>>> }

\* Entry texts of the settings runs: valid ones, and one for each way
\* _read_settings rejects.
SettingsEntries ==
    { DefaultEntries,
      <<<<"1">>, <<"1">>, <<"1">>, <<"2">>>>,
      <<<<"2">>, <<"2">>, <<"1">>, <<"1">>>>,
      <<<<" ", "6", " ">>, <<"1">>, <<"1">>, <<"2">>>>,
      <<<<"2", "0">>, <<"+", "1">>, <<"1">>, <<"2">>>>,
      <<<<"0">>, <<"1">>, <<"1">>, <<"2">>>>,
      <<<<"2", "1">>, <<"1">>, <<"1">>, <<"2">>>>,
      <<<<"-", "1">>, <<"1">>, <<"1">>, <<"2">>>>,
      <<<<"6">>, <<"0">>, <<"1">>, <<"2">>>>,
      <<<<"6">>, <<"1">>, <<"0">>, <<"2">>>>,
      <<<<"6">>, <<"1">>, <<"1">>, <<"-", "2">>>>,
      <<<<"1", ".", "5">>, <<"1">>, <<"1">>, <<"2">>>>,
      <<<<"6">>, <<"1">>, <<"x">>, <<"2">>>>,
      <<<<"6">>, <<"a">>, <<"1">>, <<"2">>>>,
      <<<<"6">>, <<"1">>, <<"1">>, <<>>>> }

Handlers == on_reset \/ Heartbeat \/ on_start_pause_resume

\* Fine-grained runs: the clock moves by quanta, any event at any instant of a window.
Next ==
    \/ Handlers
    \/ \E d \in FineSteps :
          InWindow(now + d) /\ AdvanceTime(d, MaxFineMinutes * MinuteQuanta + Window)
    \/ \E e \in FineEntries : EditSettings(e)

Spec == Init /\ [][Next]_vars

\* Whole-minute runs: the clock moves by minutes and the settings are edited
\* between runs, so that runs of many sessions fit.
NextMinutes ==
    \/ Handlers
    \/ AdvanceTime(MinuteQuanta, MaxMinutes * MinuteQuanta)
    \/ \E e \in MinuteEntries : mode = "idle" /\ EditSettings(e)

SpecMinutes == Init /\ [][NextMinutes]_vars

\* Settings runs: every kind of entry text, over a few minutes.
NextSettings ==
    \/ Handlers
    \/ AdvanceTime(MinuteQuanta, MaxSettingsMinutes * MinuteQuanta)
    \/ \E e \in SettingsEntries : EditSettings(e)

SpecSettings == Init /\ [][NextSettings]_vars

\* The keys pressed in the presentation runs.
Keys == FloatingKeys \cup SettingsKeys \cup {"Escape"}

\* The colours and sizes picked in the presentation runs.
PickedColors == {"Black", "Red"}

PickedSizes == {"Large", "Small"}

\* The style checkbutton the presentation runs click, of B, I and U.
PickedStyles == {"I"}

\* Presentation runs: every event of the window while it exists; Start and Reset
\* are buttons of the Settings panel.
NextUI ==
    \/ Heartbeat
    \/ ~destroyed /\ settings_packed /\ on_reset
    \/ ~destroyed /\ settings_packed /\ on_start_pause_resume
    \/ ~destroyed /\ AdvanceTime(MinuteQuanta, MaxUIMinutes * MinuteQuanta)
    \/ \E e \in FineEntries :
          ~destroyed /\ settings_packed /\ mode = "idle" /\ EditSettings(e)
    \/ \E key \in Keys : KeyPress(key)
    \/ on_status_click
    \/ on_status_double_click
    \/ floating_checkbox
    \/ \E name \in PickedColors : on_color_change(name)
    \/ \E size \in PickedSizes : on_size_change(size)
    \/ \E style \in PickedStyles : apply_text_style(style)
    \/ apply_show_time
    \/ \E pos \in 0..MaxPos : drag(pos)
    \/ destroy

SpecUI == Init /\ [][NextUI]_vars

\* Sound runs: construction with or without a sound file, whole-minute steps,
\* the worker threads running at any time.
InitSound ==
    /\ Construct
    /\ audio_path \in AudioFiles
    /\ fmt_arg = <<>>

NextSound ==
    \/ Handlers
    \/ worker
    \/ AdvanceTime(MinuteQuanta, MaxSoundMinutes * MinuteQuanta)
    \/ \E e \in FineEntries : mode = "idle" /\ EditSettings(e)

SpecSound == InitSound /\ [][NextSound]_vars

\* Stopwatch runs: fine-grained runs whose clock advances under the stopwatch.
NextWatched ==
    \/ Handlers
    \/ \E d \in FineSteps :
          InWindow(now + d) /\ AdvanceWatched(d, MaxWatchedMinutes * MinuteQuanta + Window)
    \/ \E e \in FineEntries : EditSettings(e)

SpecWatched == Init /\ [][NextWatched]_vars


\* ================================================================== claims
\* The entries hold a valid configuration: four integers, the session count in
\* 1..20 and every duration positive.
ValidEntries ==
    /\ IsIntText(var_sessions) /\ IsIntText(var_pomo_min)
    /\ IsIntText(var_short_min) /\ IsIntText(var_long_min)
    /\ IntOf(var_sessions) \in 1..20
    /\ IntOf(var_pomo_min) > 0 /\ IntOf(var_short_min) > 0 /\ IntOf(var_long_min) > 0

\* A press of the Start button in Idle.
StartPress == mode = "idle" /\ on_start_pause_resume

\* A tick that ends the running phase: not paused and the rounded time left is <= 0.
PhaseEndTick == mode \in {"study", "break"} /\ ~paused /\ LeftNow <= 0 /\ Heartbeat

\* C1: pressing Start in Idle with a valid configuration in the entries stores the
\* configuration, enters Study unpaused with no session completed, sets the
\* deadline to now + studyMinutes*60 and shows progress 1 / sessionCount.
C1_StartValid ==
    [][(StartPress /\ ValidEntries) =>
        /\ total_sessions' = IntOf(var_sessions)
        /\ pomo_min' = IntOf(var_pomo_min)
        /\ short_min' = IntOf(var_short_min)
        /\ long_min' = IntOf(var_long_min)
        /\ mode' = "study"
        /\ paused' = FALSE
        /\ done_pomodoros' = 0
        /\ phase_end_monot' = now + IntOf(var_pomo_min) * 60 * Res
        /\ ShownNumerator' = 1
        /\ ShownDenominator' = IntOf(var_sessions)]_vars

\* A run of 20 sessions has just been started, at an instant later than construction.
C1_Witness ==
    /\ mode = "study" /\ ~paused /\ done_pomodoros = 0 /\ total_sessions = 20
    /\ now > 0 /\ phase_end_monot = now + pomo_min * 60 * Res
    /\ ShownNumerator = 1 /\ ShownDenominator = 20 /\ btn_start = "Pause"

\* C2: pressing Start in Idle with an invalid configuration in the entries (a
\* session count outside 1..20, a duration <= 0 or a text that is no integer)
\* fails: an error is shown, the mode stays Idle and neither the stored
\* configuration nor the run state changes.
C2_StartInvalid ==
    [][(StartPress /\ ~ValidEntries) =>
        /\ errorbox' # ""
        /\ mode' = "idle"
        /\ UNCHANGED <<config, run>>]_vars

\* Start has just been refused (Reset reads the entries only while no
\* configuration is stored) after an earlier run stored one.
C2_Witness == errorbox # "" /\ mode = "idle" /\ total_sessions > 0

\* C3: a tick that ends an unpaused Study phase increments done_pomodoros by one
\* and, when the new count k is below the session count, enters a Break of
\* longBreakMinutes*60 seconds if k is a multiple of 5 and of
\* shortBreakMinutes*60 seconds otherwise.
C3_Cadence ==
    [][(PhaseEndTick /\ mode = "study") =>
        /\ done_pomodoros' = done_pomodoros + 1
        /\ done_pomodoros' < total_sessions =>
             /\ mode' = "break"
             /\ phase_end_monot' - now =
                  (IF done_pomodoros' % 5 = 0 THEN long_min ELSE short_min) * 60 * Res]_vars

\* The long break after the fifth session has just been entered.
C3_Witness ==
    /\ mode = "break" /\ done_pomodoros = 5 /\ long_min # short_min
    /\ phase_end_monot = now + long_min * 60 * Res

\* C4: the tick that ends the Study phase completing the last session goes to
\* Idle on that tick, unpaused, with done_pomodoros equal to the session count;
\* no Break is entered.
C4_Completion ==
    [][(PhaseEndTick /\ mode = "study" /\ done_pomodoros + 1 = total_sessions) =>
        /\ mode' = "idle"
        /\ paused' = FALSE
        /\ done_pomodoros' = total_sessions]_vars

\* A run of one session has completed: Study, then Idle, one session done.
C4_Witness ==
    mode = "idle" /\ total_sessions = 1 /\ done_pomodoros = 1 /\ alerts = 1

\* C5: a tick that finds no time left in an unpaused Break enters Study with the
\* deadline now + studyMinutes*60, leaves done_pomodoros alone and shows the
\* numerator done_pomodoros + 1.
C5_BreakEnd ==
    [][(PhaseEndTick /\ mode = "break") =>
        /\ mode' = "study"
        /\ phase_end_monot' = now + pomo_min * 60 * Res
        /\ done_pomodoros' = done_pomodoros
        /\ ShownNumerator' = done_pomodoros + 1]_vars

\* The second Study phase has just been entered by the tick that ended the
\* first Break.
C5_Witness ==
    /\ mode = "study" /\ done_pomodoros = 1 /\ alerts = 2 /\ ~paused
    /\ phase_end_monot = now + pomo_min * 60 * Res
    /\ ShownNumerator = 2


\* A press of Reset.
ResetPress == on_reset

\* C6: a run of N sessions that is not reset goes Study, Break, Study, ..., Study,
\* Idle: Idle is left only for the first Study; the j-th Study is followed by a
\* Break exactly when j < N and by Idle when j = N; a Break is followed by the
\* next Study; Study and Break show the numerators j and j; and the phases that
\* have ended so far number 2j-2 in the j-th Study, 2j-1 in the Break after
\* it, and 2N-1 when the run is complete.
C6_PhaseOrder ==
    [][/\ (mode = "idle" /\ mode' # "idle") => (mode' = "study" /\ done_pomodoros' = 0)
       /\ (mode = "study" /\ mode' = "break") =>
              (done_pomodoros' = done_pomodoros + 1 /\ done_pomodoros' < total_sessions)
       /\ (mode = "study" /\ mode' = "idle" /\ ~ResetPress) =>
              (done_pomodoros' = done_pomodoros + 1 /\ done_pomodoros' = total_sessions)
       /\ (mode = "break" /\ mode' # "break" /\ ~ResetPress) =>
              (mode' = "study" /\ done_pomodoros' = done_pomodoros)
       /\ (mode # "idle" /\ mode' = mode) =>
              (done_pomodoros' = done_pomodoros /\ alerts' = alerts)
       /\ mode' = "study" =>
              (ShownNumerator' = done_pomodoros' + 1 /\ alerts' = 2 * done_pomodoros')
       /\ mode' = "break" =>
              (ShownNumerator' = done_pomodoros' /\ alerts' = 2 * done_pomodoros' - 1)
       /\ (mode' = "idle" /\ done_pomodoros' > 0) =>
              (done_pomodoros' = total_sessions' /\ alerts' = 2 * total_sessions' - 1)]_vars

\* A run of three sessions is complete: three Study and two Break phases have ended.
C6_Witness ==
    mode = "idle" /\ total_sessions = 3 /\ done_pomodoros = 3 /\ alerts = 5

\* C7: done_pomodoros never exceeds total_sessions, and when they are equal the
\* mode is Idle.
C7_DoneBounded ==
    /\ done_pomodoros <= total_sessions
    /\ done_pomodoros = total_sessions => mode = "idle"

\* The last of six sessions has completed.
C7_Witness == total_sessions = 6 /\ done_pomodoros = 6 /\ mode = "idle"

\* C8: Reset, pressed in any state, yields Idle, unpaused, no session done,
\* status READY and countdown 00:00.
C8_Reset ==
    [][ResetPress =>
        /\ mode' = "idle"
        /\ paused' = FALSE
        /\ done_pomodoros' = 0
        /\ lbl_status' = "READY"
        /\ ShownCountdown' = <<"0", "0", ":", "0", "0">>]_vars

\* Reset has interrupted a paused phase of the second session: Idle, although the
\* deadline is more than a second ahead (a completed run leaves a deadline at
\* most half a second ahead) and the remaining time frozen by the pause is kept.
C8_Witness ==
    /\ mode = "idle" /\ ~paused /\ done_pomodoros = 0 /\ total_sessions = 2
    /\ lbl_status = "READY" /\ ShownCountdown = <<"0", "0", ":", "0", "0">>
    /\ paused_left > 0 /\ phase_end_monot > now + Res /\ now > 60 * Res

\* v is max(0, round(x/Res)): 0 when x/Res <= 1/2, else the integer nearest to
\* x/Res, the even one of the two when x/Res lies halfway.
IsFrozenValue(v, x) ==
    IF 2 * x <= Res THEN v = 0
    ELSE LET e == IF x >= Res * v THEN x - Res * v ELSE Res * v - x
         IN  2 * e <= Res /\ (2 * e = Res => v % 2 = 0)

\* A press of the button that pauses, and one that resumes.
PausePress == mode \in {"study", "break"} /\ ~paused /\ on_start_pause_resume

ResumePress == mode \in {"study", "break"} /\ paused /\ on_start_pause_resume

\* C9: Pause in Study or Break freezes paused_left = max(0, round(deadline - now));
\* as long as the timer stays paused, whatever time passes, the frozen value,
\* the mode, done_pomodoros and the deadline do not change and no phase ends,
\* and every tick displays the frozen value.
C9_PauseFreezes ==
    [][/\ PausePress => (paused' /\ IsFrozenValue(paused_left', phase_end_monot - now))
       /\ (paused /\ paused') =>
              /\ paused_left' = paused_left
              /\ UNCHANGED <<mode, done_pomodoros, phase_end_monot, alerts>>
       /\ (paused /\ Heartbeat) => (paused' /\ ShownSeconds' = paused_left)]_vars

\* Paused in Study with time left frozen, the old deadline already passed, the
\* frozen value on display.
C9_Witness ==
    /\ paused /\ mode = "study" /\ paused_left > 0 /\ now > phase_end_monot
    /\ ShownSeconds = paused_left

\* C10: Resume sets the deadline to now + paused_left and clears paused, so the
\* time left at that instant is the frozen value; Pause and Resume leave the
\* mode and done_pomodoros as they were.
C10_RoundTrip ==
    [][/\ ResumePress =>
              /\ phase_end_monot' = now + paused_left * Res
              /\ paused' = FALSE
              /\ LeftNow' = paused_left
              /\ UNCHANGED <<mode, done_pomodoros, paused_left>>
       /\ PausePress => UNCHANGED <<mode, done_pomodoros>>]_vars

\* A Break has just been resumed with part of a minute left (a phase entry sets
\* a deadline whole minutes ahead).
C10_Witness ==
    /\ mode = "break" /\ ~paused /\ btn_start = "Pause" /\ lbl_status = "BREAK"
    /\ paused_left > 0 /\ paused_left < 60
    /\ phase_end_monot = now + paused_left * Res

\* The configured duration of the current phase, in seconds.
PhaseSeconds ==
    IF mode = "study" THEN pomo_min * 60
    ELSE (IF done_pomodoros % 5 = 0 THEN long_min ELSE short_min) * 60

\* The time left of the current phase, in quanta: the frozen value while paused,
\* else the distance to the deadline.
TimeLeft == IF paused THEN paused_left * Res ELSE phase_end_monot - now

\* C11: pausing and resuming cause no drift: in Study and in Break, whatever the
\* number of pause/resume cycles, the un-paused time the phase has run so far
\* plus the time it has left is the configured duration of the phase, so that
\* the phase ends after running un-paused for exactly its duration.
C11_NoDrift ==
    mode \in {"study", "break"} => stopwatch + TimeLeft = PhaseSeconds * Res

\* C12: the alert is played once by every tick that ends a phase (Study to
\* Break, Break to Study, and the last Study to Idle), and by nothing else:
\* not by the button in any of its roles (Start, Pause, Resume), not by Reset,
\* not by a tick in Idle, while paused or with time left.
C12_Alert ==
    [][/\ PhaseEndTick => (alerts' = alerts + 1 /\ mode' # mode)
       /\ (Heartbeat /\ (mode = "idle" \/ paused)) => alerts' = alerts
       /\ (on_start_pause_resume \/ on_reset) => alerts' <= alerts
       /\ alerts' = alerts + 1 => PhaseEndTick]_vars

\* A run of three sessions is complete and the button is back to Start: each of
\* its five phase ends played the alert.
C12_Witness ==
    /\ mode = "idle" /\ btn_start = "Start" /\ lbl_status = "READY"
    /\ total_sessions = 3 /\ done_pomodoros = 3 /\ alerts = 5 /\ now > 0

\* C13: a tick in Idle or while paused leaves the run state and the configuration
\* alone: mode, paused, done_pomodoros, the deadline, the frozen time left and
\* the four settings.  In Idle it changes nothing on display; while paused it
\* only writes the frozen time left to line 2 again.
C13_TickNoOp ==
    [][(Heartbeat /\ (mode = "idle" \/ paused)) =>
        /\ UNCHANGED <<config, run>>
        /\ UNCHANGED <<lbl_status, btn_start, alerts>>
        /\ mode = "idle" => UNCHANGED lbl_bottom
        /\ paused => (ShownSeconds' = paused_left /\ ShownNumerator' = ShownNumerator)]_vars

\* Paused in a Break whose deadline has passed meanwhile: the Break has not ended
\* and line 2 shows the frozen time left.
C13_Witness ==
    /\ paused /\ mode = "break" /\ now > phase_end_monot /\ paused_left > 0
    /\ ShownSeconds = paused_left /\ ShownNumerator = done_pomodoros
    /\ lbl_status = "PAUSE"

\* A tick finds nothing to end: the timer is Idle, paused, or has time left.
TickAtRest == ~(mode \in {"study", "break"} /\ ~paused /\ LeftNow <= 0)

\* C14: a tick that follows a tick at the same instant changes neither mode,
\* paused, done_pomodoros nor the deadline and plays no alert.  In two parts:
\* every tick leaves the timer at rest at the instant of the tick (a phase it
\* has just entered has time left), and a tick that finds the timer at rest
\* changes none of these.
C14_TickIdempotent ==
    [][Heartbeat =>
        /\ TickAtRest'
        /\ TickAtRest =>
              (UNCHANGED <<mode, paused, done_pomodoros, phase_end_monot>>
               /\ alerts' = alerts)]_vars

\* The first Break has just been entered by a tick: its whole duration is left
\* at the instant of the tick.
C14_Witness ==
    /\ mode = "break" /\ ~paused /\ done_pomodoros = 1 /\ alerts = 1
    /\ phase_end_monot = now + short_min * 60 * Res
    /\ ShownSeconds = short_min * 60 /\ LeftNow = short_min * 60

\* C15: line 2 always shows the numerator done_pomodoros + 1 in Study and
\* done_pomodoros in Break, paused or not, and the denominator total_sessions.
C15_Progress ==
    /\ mode = "study" => ShownNumerator = done_pomodoros + 1
    /\ mode = "break" => ShownNumerator = done_pomodoros
    /\ ShownDenominator = total_sessions

\* The Break after the second of three sessions, paused, a tick having written
\* the frozen time left to line 2 a minute after the Break was entered.
C15_Witness ==
    /\ mode = "break" /\ paused /\ done_pomodoros = 2 /\ total_sessions = 3
    /\ ShownNumerator = 2 /\ ShownDenominator = 3
    /\ ShownSeconds = paused_left /\ paused_left = 60 /\ short_min = 2

\* C16: the status line always tells the state: READY exactly in Idle, PAUSE
\* exactly while paused, STUDY exactly in un-paused Study and BREAK exactly in
\* un-paused Break; so Resume brings back the label of the mode paused in.
C16_StatusLabel ==
    /\ lbl_status = "READY" <=> mode = "idle"
    /\ lbl_status = "PAUSE" <=> paused
    /\ lbl_status = "STUDY" <=> (mode = "study" /\ ~paused)
    /\ lbl_status = "BREAK" <=> (mode = "break" /\ ~paused)

\* A Break that was paused has been resumed: the label is BREAK again and the
\* deadline is the instant of Resume plus the frozen time left.
C16_Witness ==
    /\ mode = "break" /\ ~paused /\ lbl_status = "BREAK" /\ status_before_pause = "BREAK"
    /\ btn_start = "Pause" /\ done_pomodoros = 1
    /\ phase_end_monot = now + paused_left * Res /\ paused_left = 60 /\ short_min = 2

\* C17: right after Start, Pause, Resume, Reset and a tick that ends a phase, the
\* display shows the new state: the status of C16, the numerator and the
\* denominator of C15, and as countdown the time left at that instant (the
\* frozen value after Pause, the recomputed time left after Resume, the whole
\* duration after a phase entry, 00:00 in Idle).
C17_DisplayCurrent ==
    [][(StartPress \/ PausePress \/ ResumePress \/ ResetPress \/ PhaseEndTick) =>
        /\ C16_StatusLabel'
        /\ C15_Progress'
        /\ ShownSeconds' = (IF mode' = "idle" THEN 0
                            ELSE IF paused' THEN paused_left'
                            ELSE LeftNow')]_vars

\* The button never freezes the time left again while paused, and never
\* rebuilds the deadline from the frozen value while the timer runs: pressed
\* while paused it resumes, pressed while running it pauses.
NoStalePress ==
    /\ (on_start_pause_resume /\ paused) => (paused_left' = paused_left /\ ~paused')
    /\ (on_start_pause_resume /\ mode # "idle" /\ ~paused) =>
           (phase_end_monot' = phase_end_monot /\ paused')

\* C18 as claimed: Pause, Resume, Reset and the tick never report an error in
\* any reachable state, and the button never re-freezes a frozen time left nor
\* rebuilds the deadline of a running timer.
C18_NeverFail ==
    [][/\ (PausePress \/ ResumePress \/ Heartbeat \/ ResetPress) => errorbox' = ""
       /\ NoStalePress]_vars

\* C18, amended: Pause, Resume and the tick never report an error; Reset
\* reports none once a configuration is stored; and the button never
\* re-freezes a frozen time left nor rebuilds the deadline of a running timer.
C18_NeverFailStored ==
    [][/\ (PausePress \/ ResumePress \/ Heartbeat) => errorbox' = ""
       /\ (ResetPress /\ total_sessions > 0) => errorbox' = ""
       /\ NoStalePress]_vars

\* A Study paused at its start has been resumed two minutes later, with invalid
\* texts in the entries by then: the whole minute is left again and no error
\* is on display.
C18_Witness ==
    /\ mode = "study" /\ ~paused /\ paused_left = 60 /\ now = 2 * 60 * Res
    /\ phase_end_monot = now + paused_left * Res /\ errorbox = "" /\ ~ValidEntries

\* C19: while the mode is Study or Break nothing changes the stored
\* configuration, whatever is pressed or typed into the entries; it changes
\* only by a press of the button or of Reset in Idle.
C19_ConfigFrozen ==
    [][/\ mode \in {"study", "break"} => UNCHANGED config
       /\ config' # config => (mode = "idle" /\ (on_start_pause_resume \/ on_reset))]_vars

\* A paused Study whose entries have been edited to another valid configuration
\* than the stored one, a minute after Start.
C19_Witness ==
    /\ mode = "study" /\ paused /\ now >= 60 * Res
    /\ ValidEntries /\ IntOf(var_sessions) # total_sessions
    /\ IntOf(var_pomo_min) # pomo_min

\* C20: Reset reads the entries only while no configuration is stored
\* (total_sessions still 0): valid entries are then stored; invalid ones are
\* reported and leave the run state and the configuration as they were (Idle,
\* no session done, total_sessions still 0).  Once a configuration is stored
\* Reset never changes it and reports nothing.
C20_ResetReads ==
    [][ResetPress =>
        IF total_sessions = 0
        THEN IF ValidEntries
             THEN /\ config' = <<IntOf(var_sessions), IntOf(var_pomo_min),
                                 IntOf(var_short_min), IntOf(var_long_min)>>
                  /\ errorbox' = ""
             ELSE /\ errorbox' # ""
                  /\ UNCHANGED <<config, run>>
                  /\ mode' = "idle" /\ done_pomodoros' = 0 /\ total_sessions' = 0
        ELSE /\ UNCHANGED config
             /\ errorbox' = ""]_vars

\* Reset has stored the configuration of the entries before any Start: Idle at
\* the instant of construction, no deadline ever set, 20 sessions stored and
\* on display.
C20_Witness ==
    /\ mode = "idle" /\ now = 0 /\ phase_end_monot = 0
    /\ total_sessions = 20 /\ pomo_min = 1 /\ ShownDenominator = 20 /\ ShownNumerator = 0

\* C21: the alert is played by a thread of its own that never touches the run
\* state.  A step of a worker thread, whenever it runs and however the
\* playback ends, changes nothing of the timer; and the tick that plays the
\* alert completes its phase transition in the same step, with the same
\* result whether a sound file exists or not and whatever threads are still
\* running: it starts one thread if there is a sound file and none otherwise.
C21_AlertThread ==
    [][/\ worker => UNCHANGED <<config, run, lbl_status, lbl_bottom, btn_start, alerts,
                                sched>>
       /\ PhaseEndTick =>
             /\ mode' # mode
             /\ alerts' = alerts + 1
             /\ workers' = (IF audio_path = "" THEN workers ELSE workers + 1)
             /\ mode = "study" =>
                   /\ done_pomodoros' = done_pomodoros + 1
                   /\ mode' = (IF done_pomodoros' >= total_sessions THEN "idle" ELSE "break")
             /\ mode = "break" => (mode' = "study" /\ done_pomodoros' = done_pomodoros)
             /\ mode' # "idle" =>
                   (~paused' /\ phase_end_monot' = now + PhaseSeconds' * Res)]_vars

\* The second Study is running while the threads started at the end of the first
\* Study and of the first Break are both still playing.
C21_Witness ==
    /\ audio_path # "" /\ workers = 2 /\ last_sound = "none"
    /\ mode = "study" /\ done_pomodoros = 1 /\ alerts = 2 /\ ~paused

\* C22 as claimed: the time left is never negative: the value frozen by Pause is
\* >= 0; whenever a phase is running un-paused the countdown on display is
\* between 1 and the duration of the phase in seconds; and the countdown on
\* display is never below 00:00.
C22_NeverNegative ==
    /\ paused_left >= 0
    /\ (mode \in {"study", "break"} /\ ~paused) =>
           (1 <= ShownSeconds /\ ShownSeconds <= PhaseSeconds)
    /\ ShownSeconds >= 0 /\ lbl_bottom[IndexOf(lbl_bottom, " ") + Len(Gap)] # "-"

\* C22, amended: the value frozen by Pause is >= 0; every countdown a tick
\* writes while a phase is running un-paused is between 1 and the duration of
\* the phase in seconds, and a phase entry shows the duration; whenever a phase
\* is running un-paused the countdown on display is between 0 and the
\* duration, and it is 0 only after the Resume of a phase frozen with no time
\* left, which the next tick ends; the countdown on display is never below 00:00.
C22_NeverNegativeRendered ==
    /\ [](/\ paused_left >= 0
          /\ LET shown == ShownSeconds
             IN  /\ shown >= 0
                 /\ (mode \in {"study", "break"} /\ ~paused) =>
                        /\ shown <= PhaseSeconds
                        /\ shown = 0 => (paused_left = 0 /\ LeftNow <= 0)
          /\ lbl_bottom[IndexOf(lbl_bottom, " ") + Len(Gap)] # "-")
    \* a tick that leaves the phase running leaves no 00:00 (and, by the above,
    \* nothing beyond the duration) on display
    /\ [][/\ (mode \in {"study", "break"} /\ ~paused /\ mode' = mode /\ now' = now
                /\ Heartbeat) =>
                 ShownCountdown' # <<"0", "0", ":", "0", "0">>
          /\ (mode' # mode /\ mode' \in {"study", "break"}) =>
                 ShownSeconds' = PhaseSeconds']_vars

\* A tick has written the last second of a running Break to line 2.
C22_Witness ==
    /\ mode = "break" /\ ~paused /\ ShownSeconds = 1 /\ LeftNow = 1
    /\ phase_end_monot > now /\ paused_left >= 0

\* C23: paused is set only in Study and in Break: never in Idle, also not after
\* a Reset pressed while paused nor after the run has completed.
C23_PausedInPhase == paused => mode \in {"study", "break"}

\* Idle after a Reset pressed during a paused Break: the button and the status
\* are those of Idle and the time left frozen by the Pause is still stored.
C23_Witness ==
    /\ mode = "idle" /\ ~paused /\ status_before_pause = "READY" /\ btn_start = "Start"
    /\ paused_left = short_min * 60 /\ phase_end_monot > now /\ now >= 60 * Res
    /\ done_pomodoros = 0 /\ total_sessions = 3

\* C28: in Study 0 <= done_pomodoros < total_sessions; in Break
\* 1 <= done_pomodoros < total_sessions, so that the long-break test is never
\* made with done_pomodoros = 0; in Idle done_pomodoros is 0 or total_sessions.
C28_ProgressBounds ==
    /\ mode = "study" => (0 <= done_pomodoros /\ done_pomodoros < total_sessions)
    /\ mode = "break" => (1 <= done_pomodoros /\ done_pomodoros < total_sessions)
    /\ mode = "idle" => (done_pomodoros = 0 \/ done_pomodoros = total_sessions)

\* The Break after the fifth of six sessions, the only long one of the run.
C28_Witness ==
    /\ mode = "break" /\ done_pomodoros = 5 /\ total_sessions = 6
    /\ ShownNumerator = 5 /\ ShownDenominator = 6 /\ ShownSeconds = long_min * 60

\* ------------------------------------------------------------- fair runs
\* One run, started at time 0 with settings picked before, never reset: the
\* heartbeat keeps firing, the clock keeps advancing, a paused timer is resumed
\* in the end, and Pause is pressed only in the first MaxPauseMinutes minutes.
LiveEntries ==
    { <<<<"2">>, <<"1">>, <<"1">>, <<"2">>>>,
      <<<<"5">>, <<"1">>, <<"1">>, <<"2">>>>,
      <<<<" ", "6", " ">>, <<"1">>, <<"1">>, <<"2">>>>,
      <<<<"1", "1">>, <<"1">>, <<"1">>, <<"2">>>> }

PauseUntil == MaxPauseMinutes * MinuteQuanta

\* The clock of a run in progress: before PauseUntil it advances whatever the
\* timer does; after it, a tick comes before the clock passes the deadline.
LiveClock ==
    /\ mode # "idle"
    /\ now < PauseUntil \/ (~paused /\ now < phase_end_monot)
    /\ AdvanceTime(MinuteQuanta, (MaxPauseMinutes + MaxLiveRunMinutes) * MinuteQuanta)

LiveStart == mode = "idle" /\ now = 0 /\ entries \in LiveEntries /\ on_start_pause_resume

LivePause == mode # "idle" /\ ~paused /\ now < PauseUntil /\ on_start_pause_resume

LiveResume == mode # "idle" /\ paused /\ on_start_pause_resume

NextLive ==
    \/ Heartbeat
    \/ LiveStart
    \/ LivePause
    \/ LiveResume
    \/ LiveClock
    \/ \E e \in LiveEntries : mode = "idle" /\ now = 0 /\ EditSettings(e)

SpecLive ==
    /\ Init
    /\ [][NextLive]_vars
    /\ WF_vars(Heartbeat)
    /\ WF_vars(LiveClock)
    /\ WF_vars(LiveResume)

\* C29: when the heartbeat keeps firing, the clock keeps advancing, every Pause
\* is followed by a Resume, Pause is pressed finitely often and Reset never, a
\* started run reaches Idle with every session completed and exactly
\* 2*total_sessions - 1 alerts fired.
C29_RunCompletes ==
    (mode # "idle") ~>
        (mode = "idle" /\ done_pomodoros = total_sessions
                       /\ alerts = 2 * total_sessions - 1)

\* A run of six sessions is complete after pauses or late ticks: eleven alerts
\* have fired and the clock is past the twelve minutes the phases take.
C29_Witness ==
    /\ mode = "idle" /\ total_sessions = 6 /\ done_pomodoros = 6 /\ alerts = 11
    /\ now > 12 * MinuteQuanta

\* ------------------------------------------------------- formatting runs
\* The formatting functions applied to arguments drawn at the start.
FmtArgs ==
    {<<"fmt_mm_ss", sec>> : sec \in (0 - MaxFmtBelow)..MaxFmtSeconds}
    \cup {<<"fmt_progress", n, d>> : n \in (0 - MaxFmtBelow)..MaxFmtCount,
                                      d \in (0 - MaxFmtBelow)..MaxFmtCount}

InitFmt ==
    /\ Construct
    /\ audio_path = ""
    /\ fmt_arg \in FmtArgs

FmtFrame ==
    UNCHANGED <<now, entries, config, run, widgets, alerts, long_breaks, stopwatch, ui,
                sched, sound,
                fmt_arg>>

call_fmt_mm_ss ==
    /\ fmt_arg[1] = "fmt_mm_ss"
    /\ fmt_out = <<>>
    /\ fmt_out' = fmt_mm_ss(fmt_arg[2])
    /\ FmtFrame

call_fmt_progress ==
    /\ fmt_arg[1] = "fmt_progress"
    /\ fmt_out = <<>>
    /\ fmt_out' = fmt_progress(fmt_arg[2], fmt_arg[3])
    /\ FmtFrame

NextFmt ==
    \/ call_fmt_mm_ss
    \/ call_fmt_progress

SpecFmt == InitFmt /\ [][NextFmt]_vars

\* Reading a formatted text back: it is two fields of at least two decimal
\* digits around the one separator sep, the fields write the numbers left and
\* right, and a field is longer than two digits only when the number needs it.
TwoFields(t, sep, left, right) ==
    LET k == IndexOf(t, sep)
    IN  /\ k >= 3 /\ Len(t) >= k + 2
        /\ \A i \in 1..Len(t) : i # k => IsDigit(t[i])
        /\ NumberAt(t, 1, k - 1) = left
        /\ NumberAt(t, k + 1, Len(t)) = right
        /\ k > 3 => (t[1] # "0" /\ left >= 100)
        /\ Len(t) > k + 2 => (t[k + 1] # "0" /\ right >= 100)

AtLeastZero(x) == IF x < 0 THEN 0 ELSE x

\* C25: fmt_mm_ss(sec) writes max(0, sec) as minutes:seconds, both fields padded
\* with zeros to two digits, the seconds in 00..59; fmt_progress(n, d) writes
\* max(0, n)/max(0, d), both padded with zeros to two digits, and in exactly
\* two digits each for the counts a run can have (up to 20 sessions).
C25_Formatting ==
    fmt_out # <<>> =>
        IF fmt_arg[1] = "fmt_mm_ss"
        THEN LET v == AtLeastZero(fmt_arg[2])
                 k == IndexOf(fmt_out, ":")
             IN  /\ TwoFields(fmt_out, ":", v \div 60, v % 60)
                 /\ Len(fmt_out) = k + 2
                 /\ 60 * NumberAt(fmt_out, 1, k - 1) + NumberAt(fmt_out, k + 1, k + 2) = v
                 /\ NumberAt(fmt_out, k + 1, k + 2) <= 59
        ELSE LET n == AtLeastZero(fmt_arg[2])
                 d == AtLeastZero(fmt_arg[3])
             IN  /\ TwoFields(fmt_out, "/", n, d)
                 /\ (n <= MaxSessions /\ d <= MaxSessions) => Len(fmt_out) = 5

\* A hundred minutes less one second has been formatted, and so has a negative
\* number of seconds.
C25_Witness ==
    \/ fmt_arg = <<"fmt_mm_ss", 6059>> /\ fmt_out = <<"1", "0", "0", ":", "5", "9">>
    \/ fmt_arg = <<"fmt_progress", 0 - 1, 20>> /\ fmt_out = <<"0", "0", "/", "2", "0">>

\* An operation of the presentation: a key, a click or a double click on the
\* status line, the Floating and Date checkboxes, a colour, a size, B/I/U, a drag.
PresentationOp ==
    \/ \E key \in Keys : KeyPress(key)
    \/ on_status_click
    \/ on_status_double_click
    \/ floating_checkbox
    \/ \E name \in ColorNames : on_color_change(name)
    \/ \E size \in SizeNames : on_size_change(size)
    \/ \E style \in {"B", "I", "U"} : apply_text_style(style)
    \/ apply_show_time
    \/ \E pos \in 0..MaxPos : drag(pos)

\* C24: the run state and the stored configuration are changed only by the
\* button (Start, Pause, Resume), Reset and the tick: every operation of the
\* presentation leaves mode, paused, done_pomodoros, the deadline, the frozen
\* time left and the four settings as they are, in every state.
C24_UIFrame ==
    [][/\ UNCHANGED <<config, run>> \/ ~PresentationOp
       /\ <<config, run>>' # <<config, run>> =>
             (Heartbeat \/ on_start_pause_resume \/ on_reset)]_vars

\* A paused Break in a floating window that has been dragged, with the Date line
\* hidden, red, small and italic text.
C24_Witness ==
    /\ mode = "break" /\ paused /\ done_pomodoros = 1
    /\ float_on /\ win_pos = 1 /\ ~show_time /\ current_fg = "#FF0000"
    /\ current_size = "Small" /\ italic_on

\* C26: a press of the Esc key toggles Floating mode: it flips float_on and the
\* window takes the floating or the normal presentation accordingly.
C26_EscFloating ==
    [][(KeyPress("Escape") /\ esc_presses' = esc_presses + 1) => (float_on' = ~float_on /\ floating_window' = float_on')]_vars

\* C27: the Floating checkbox, a double click on the status line and the keys f
\* and F each toggle Floating mode; a click on the status line and the keys s
\* and S each toggle the Settings panel, in normal and in floating mode;
\* setting_open always tells whether the panel is shown; and entering Floating
\* mode leaves the panel collapsed.
C27_Toggles ==
    /\ [](setting_open = settings_packed)
    /\ [][/\ (floating_checkbox \/ on_status_double_click
               \/ KeyPress("f") \/ KeyPress("F")) =>
                 (float_on' = ~float_on /\ floating_window' = float_on')
          /\ (on_status_click \/ KeyPress("s") \/ KeyPress("S")) =>
                 (setting_open' = ~setting_open /\ float_on' = float_on)
          /\ (~float_on /\ float_on') => (~setting_open' /\ ~settings_packed')]_vars

\* The Settings panel has been opened again in Floating mode.
C27_Witness ==
    /\ float_on /\ floating_window /\ drag_bound /\ setting_open /\ settings_packed

\* C30: while the window exists exactly one heartbeat is pending: the heartbeat
\* schedules itself once in every run, in Idle, in a running and in a paused
\* phase, and neither the button nor Reset schedule or cancel one; only destroy
\* cancels it.
C30_OneHeartbeat ==
    /\ [](~destroyed => hb_pending = 1)
    /\ [][/\ (Heartbeat \/ on_start_pause_resume \/ on_reset) => hb_pending' = hb_pending
          /\ hb_pending' # hb_pending => destroy]_vars

\* The heartbeat has run in Idle, in a running Study and has ended it; the Break
\* is paused and one heartbeat is pending.
C30_Witness ==
    /\ ~destroyed /\ hb_pending = 1 /\ mode = "break" /\ paused /\ alerts = 1
    /\ ShownSeconds = paused_left

\* C31: the label of the button names what the next press does: it reads Start
\* exactly in Idle, Pause exactly in a Study or Break that is not paused, and
\* Resume exactly when paused, after any presses, resets and ticks; and a press
\* does what the label says (Start starts a Study when the settings are valid,
\* Pause pauses, Resume resumes).
C31_ButtonLabel ==
    /\ [](/\ btn_start = "Start" <=> mode = "idle"
          /\ btn_start = "Pause" <=> (mode \in {"study", "break"} /\ ~paused)
          /\ btn_start = "Resume" <=> paused)
    /\ [][on_start_pause_resume =>
            /\ (btn_start = "Start" /\ ValidEntries) =>
                   (mode' = "study" /\ ~paused' /\ done_pomodoros' = 0)
            /\ (btn_start = "Start" /\ ~ValidEntries) => (mode' = "idle" /\ errorbox' # "")
            /\ btn_start = "Pause" => (paused' /\ mode' = mode)
            /\ btn_start = "Resume" => (~paused' /\ mode' = mode)]_vars

\* A run of three sessions is complete after a pause in a Break: the button
\* reads Start again.
C31_Witness ==
    /\ mode = "idle" /\ btn_start = "Start" /\ total_sessions = 3 /\ done_pomodoros = 3
    /\ paused_left > 0 /\ status_before_pause = "READY" /\ alerts = 5


\* C32: a Pause pressed when the rounded time left is 0 or less freezes 0; no
\* tick ends a paused phase or fires an alert; the Resume of a phase frozen at 0
\* puts the deadline at the present instant, and a tick of an un-paused phase
\* whose deadline has come ends the phase and fires exactly one alert, after
\* which the timer is Idle or the new phase has time left.
C32_PauseAtZero ==
    [][/\ (PausePress /\ LeftNow <= 0) => (paused_left' = 0 /\ mode' = mode)
       /\ (paused /\ Heartbeat) => UNCHANGED <<mode, done_pomodoros, alerts, paused>>
       /\ (ResumePress /\ paused_left = 0) =>
              (phase_end_monot' = now /\ LeftNow' <= 0 /\ alerts' = alerts)
       /\ (mode \in {"study", "break"} /\ ~paused /\ phase_end_monot <= now /\ Heartbeat) =>
              /\ alerts' = alerts + 1
              /\ mode' # mode
              /\ done_pomodoros' = done_pomodoros + (IF mode = "study" THEN 1 ELSE 0)
              /\ mode' = "idle" \/ LeftNow' > 0]_vars

\* A Break frozen at 0 with half a second left has shown 00:00 while paused and
\* has just been resumed: its deadline is the present instant.
C32_Witness ==
    /\ mode = "break" /\ ~paused /\ paused_left = 0 /\ phase_end_monot = now
    /\ ShownSeconds = 0 /\ lbl_status = "BREAK" /\ btn_start = "Pause"


\* The run is complete: Idle with every session of a stored configuration done.
Completed == mode = "idle" /\ total_sessions >= 1 /\ done_pomodoros = total_sessions

\* C33: with a long break that differs from the short one, a complete run of N
\* sessions has had floor((N-1)/5) long breaks; while it is in progress it has
\* had one for every five sessions done; a run of up to 5 sessions never has
\* one, its last session ending the run rather than starting a break.
C33_LongBreaks ==
    /\ [](long_min # short_min =>
            /\ Completed => long_breaks = (total_sessions - 1) \div 5
            /\ mode # "idle" => long_breaks = done_pomodoros \div 5
            /\ (total_sessions <= 5 /\ (Completed \/ mode # "idle")) => long_breaks = 0)
    /\ [][(mode = "study" /\ done_pomodoros' = total_sessions
              /\ done_pomodoros' # done_pomodoros) =>
                (mode' = "idle" /\ long_breaks' = long_breaks)]_vars

\* Runs of 5, of 6 and of 11 sessions are complete, with no, one and two long
\* breaks.
C33_Witness ==
    /\ Completed /\ long_min # short_min
    /\ \/ total_sessions = 5 /\ long_breaks = 0
       \/ total_sessions = 6 /\ long_breaks = 1
       \/ total_sessions = 11 /\ long_breaks = 2


\* A phase ends in this step: a session is counted or a Break gives way to Study.
PhaseEnds ==
    /\ mode \in {"study", "break"}
    /\ done_pomodoros' = done_pomodoros + 1 \/ (mode = "break" /\ mode' = "study")

\* C34: a tick of an un-paused phase ends the phase exactly when the deadline
\* is at most half a second away or has passed, which is when the time left
\* rounds to 0 or less: earlier ticks leave the phase running and a phase never
\* ends more than half a second early; the deadline of the phase entered is
\* the instant of that tick plus the duration of the phase, not the previous
\* deadline plus the duration; and a deadline is set only on entering a phase
\* and on Resume, so that the deadline of a phase never paused is its entry
\* time plus its duration.
C34_PhaseEndTiming ==
    [][/\ (mode \in {"study", "break"} /\ ~paused /\ now' = now /\ Heartbeat) =>
              (PhaseEnds <=> 2 * (phase_end_monot - now) <= Res)
       /\ PhaseEnds => (~paused /\ 2 * (phase_end_monot - now) <= Res /\ now' = now)
       /\ (mode' \in {"study", "break"} /\ (PhaseEnds \/ mode = "idle")) =>
              phase_end_monot' = now + PhaseSeconds' * Res
       /\ phase_end_monot' # phase_end_monot =>
              \/ mode' \in {"study", "break"} /\ (PhaseEnds \/ mode = "idle")
              \/ paused /\ ~paused' /\ mode' = mode]_vars

\* A Study of one minute started at time 0 and never paused has ended half a
\* second early, and the Break has its deadline a minute after that tick.
C34_Witness ==
    /\ mode = "break" /\ ~paused /\ done_pomodoros = 1 /\ short_min = 1
    /\ now = MinuteQuanta - 1 /\ phase_end_monot = now + 60 * Res


=============================================================================
